---- MODULE Spec2Model ----
(***************************************************************************)
(* Model of src/utils/env.py: directory creation (make_dir), file          *)
(* discovery (fetch_files) and HDF5 container access (open_hdf5, make_h5,  *)
(* get_h5_object, save_h5).                                                *)
(*                                                                         *)
(* The filesystem helpers and the container helpers share no state, so     *)
(* they are explored by two specifications over the same variables:        *)
(* SpecFS (make_dir, fetch_files) and Spec (the four HDF5 operations).     *)
(***************************************************************************)
EXTENDS Integers, Sequences, FiniteSets, TLC

VARIABLES fs, fsOut, disk, handles, grefs, lastWrite, out

vars == <<fs, fsOut, disk, handles, grefs, lastWrite, out>>

fsVars == <<fs, fsOut>>

h5Vars == <<disk, handles, grefs, lastWrite, out>>

(***************************************************************************)
(* Filesystem: names are character-code sequences, paths are sequences of  *)
(* names relative to the working directory (<<>>).                         *)
(***************************************************************************)

\* character codes used by the model: '.', '/', 'a', 'b'
Chr == [dot |-> 46, slash |-> 47, a |-> 97, b |-> 98]

\* the entry names "a" and "a.b"
Names == { <<Chr.a>>, <<Chr.a, Chr.dot, Chr.b>> }

Root == <<>>

\* every path of one or two components, and the working directory itself
Paths == {Root} \cup { <<n>> : n \in Names } \cup { <<n, m>> : n \in Names, m \in Names }

Parent(p) == SubSeq(p, 1, Len(p) - 1)

IsPrefix(p, q) == Len(p) <= Len(q) /\ SubSeq(q, 1, Len(p)) = p

\* a filesystem content: the working directory is a directory, and an entry
\* exists only inside a directory
WellFormedFs(f) ==
    /\ f[Root] = "dir"
    /\ \A p \in Paths \ {Root} : f[p] # "none" => f[Parent(p)] = "dir"

FsContents == { f \in [Paths -> {"none", "dir", "file"}] : WellFormedFs(f) }

\* (mutant) exist_ok left at its default
MkdirFlagsNoExistOk == [parents |-> TRUE, exist_ok |-> FALSE]

\* Path(str).mkdir(parents=True, exist_ok=True): the arguments the code passes
MkdirFlags == [parents |-> TRUE, exist_ok |-> TRUE]

\* pathlib's Path.mkdir over os.mkdir:
\*   os.mkdir raises FileExistsError on an existing entry (tolerated when
\*   exist_ok and the entry is a directory), NotADirectoryError below a
\*   regular file, FileNotFoundError below a missing parent (then, with
\*   parents, the parent is made first and the mkdir retried).
RECURSIVE Mkdir(_, _, _)
Mkdir(f, p, flags) ==
    IF f[p] # "none"
    THEN IF flags.exist_ok /\ f[p] = "dir"
         THEN [fs |-> f, status |-> "ok"]
         ELSE [fs |-> f, status |-> "FileExistsError"]
    ELSE IF f[Parent(p)] = "dir"
    THEN [fs |-> [f EXCEPT ![p] = "dir"], status |-> "ok"]
    ELSE IF f[Parent(p)] = "file"
    THEN [fs |-> f, status |-> "NotADirectoryError"]
    ELSE IF ~flags.parents
    THEN [fs |-> f, status |-> "FileNotFoundError"]
    ELSE LET up == Mkdir(f, Parent(p), [parents |-> TRUE, exist_ok |-> TRUE])
         IN  IF up.status # "ok"
             THEN up
             ELSE Mkdir(up.fs, p, [parents |-> FALSE, exist_ok |-> flags.exist_ok])

\* make_dir(str)
make_dir(d) ==
    LET r == Mkdir(fs, d, MkdirFlags)
    IN  /\ fs' = r.fs
        /\ fsOut' = [op |-> "make_dir", dir |-> d, pattern |-> <<>>,
                     status |-> r.status, files |-> <<>>, before |-> fs]
        /\ UNCHANGED h5Vars

(***************************************************************************)
(* Glob patterns: a pattern is a sequence of components, a component a     *)
(* sequence of tokens (a literal character, "*" or "?"); the component     *)
(* "**" is pathlib's recursive wildcard.                                   *)
(***************************************************************************)

Lit(c) == [w |-> "lit", c |-> c]

StarT == [w |-> "star", c |-> 0]

QmT == [w |-> "qm", c |-> 0]

StarStar == <<StarT, StarT>>

\* the patterns  *  ?  a*  *.b  */*  a/*  **/*
Patterns ==
    { << <<StarT>> >>,
      << <<QmT>> >>,
      << <<Lit(Chr.a), StarT>> >>,
      << <<StarT, Lit(Chr.dot), Lit(Chr.b)>> >>,
      << <<StarT>>, <<StarT>> >>,
      << <<Lit(Chr.a)>>, <<StarT>> >>,
      << StarStar, <<StarT>> >> }

\* fnmatch of one entry name against one pattern component
RECURSIVE FnMatch(_, _)
FnMatch(name, comp) ==
    IF comp = <<>>
    THEN name = <<>>
    ELSE LET t == Head(comp)
         IN  IF t.w = "star"
             THEN \/ FnMatch(name, Tail(comp))
                  \/ name # <<>> /\ FnMatch(Tail(name), comp)
             ELSE /\ name # <<>>
                  /\ (t.w = "qm" \/ Head(name) = t.c)
                  /\ FnMatch(Tail(name), Tail(comp))

\* one selector step of Path.glob: "**" selects the base directories and every
\* directory below them; any other component selects the entries (of any
\* kind) of the base directories whose name matches
SelectStep(f, bases, comp) ==
    IF comp = StarStar
    THEN { q \in Paths : f[q] = "dir" /\ \E b \in bases : f[b] = "dir" /\ IsPrefix(b, q) }
    ELSE { q \in Paths : /\ q # Root
                         /\ f[q] # "none"
                         /\ Parent(q) \in bases
                         /\ f[Parent(q)] = "dir"
                         /\ FnMatch(q[Len(q)], comp) }

RECURSIVE Select(_, _, _)
Select(f, bases, pat) ==
    IF pat = <<>> THEN bases ELSE Select(f, SelectStep(f, bases, Head(pat)), Tail(pat))

\* Path(directory).glob(pattern): nothing is yielded, and nothing raised, when
\* directory is missing or is not a directory
Glob(f, dir, pat) == IF f[dir] # "dir" THEN {} ELSE Select(f, {dir}, pat)

\* lexicographic order of two sequences of integers
RECURSIVE SeqLess(_, _)
SeqLess(s, t) ==
    IF t = <<>> THEN FALSE
    ELSE IF s = <<>> THEN TRUE
    ELSE IF Head(s) # Head(t) THEN Head(s) < Head(t)
    ELSE SeqLess(Tail(s), Tail(t))

\* the order of pathlib paths: component by component, each component as a
\* string
RECURSIVE PathLess(_, _)
PathLess(p, q) ==
    IF q = <<>> THEN FALSE
    ELSE IF p = <<>> THEN TRUE
    ELSE IF Head(p) # Head(q) THEN SeqLess(Head(p), Head(q))
    ELSE PathLess(Tail(p), Tail(q))

\* sorted(...) of a set of paths
RECURSIVE Sorted(_)
Sorted(S) ==
    IF S = {} THEN <<>>
    ELSE LET m == CHOOSE x \in S : \A y \in S \ {x} : PathLess(x, y)
         IN  <<m>> \o Sorted(S \ {m})

\* fetch_files(pattern, directory)
fetch_files(pattern, directory) ==
    /\ fsOut' = [op |-> "fetch_files", dir |-> directory, pattern |-> pattern,
                 status |-> "ok", files |-> Sorted(Glob(fs, directory, pattern)),
                 before |-> fs]
    /\ UNCHANGED fs
    /\ UNCHANGED h5Vars

(***************************************************************************)
(* HDF5 container: one container path; a container is a root namespace of  *)
(* datasets and groups, a group a namespace of datasets.                   *)
(***************************************************************************)

\* the container path handed to open_hdf5, make_h5 and get_h5_object
H5Path == "data.h5"

\* names used for datasets and groups
Keys == {"x", "g"}

\* keys a reader may ask for: the names above and one that is never stored
ReadKeys == Keys \cup {"z"}

\* array data the caller writes: two integer arrays, and an array of Python
\* objects, which has no HDF5 type
IntData == { [dtype |-> "int", vals |-> <<1, 2, 3>>], [dtype |-> "int", vals |-> <<4, 5>>] }

ObjData == [dtype |-> "object", vals |-> <<1>>]

WriteData == IntData \cup {ObjData}

NoData == [dtype |-> "none", vals |-> <<>>]

Compressions == {"gzip", "none"}

Absent == [kind |-> "absent"]

Dataset(data, compression) == [kind |-> "dataset", data |-> data, compression |-> compression]

EmptyMembers == [k \in Keys |-> Absent]

Group(members) == [kind |-> "group", members |-> members]

NoFile == [kind |-> "nofile"]

Container(root) == [kind |-> "file", root |-> root]

\* Path(file).exists()
Exists(d) == d.kind = "file"

\* f.keys()
TopKeys(d) == { k \in Keys : d.root[k].kind # "absent" }

\* the namespace a handle refers to: "/" is the File itself, any other target
\* the root group of that name
Members(d, target) == IF target = "/" THEN d.root ELSE d.root[target].members

WithMembers(d, target, m) ==
    IF target = "/" THEN [d EXCEPT !.root = m] ELSE [d EXCEPT !.root[target].members = m]

\* h5py.File(file, mode): "w" creates or truncates, "a" opens read-write and
\* creates when missing, "r" needs the file
OpenFile(d, mode) ==
    IF mode = "w" THEN [status |-> "ok", disk |-> Container(EmptyMembers)]
    ELSE IF mode = "a" THEN [status |-> "ok", disk |-> IF Exists(d) THEN d ELSE Container(EmptyMembers)]
    ELSE IF Exists(d) THEN [status |-> "ok", disk |-> d]
    ELSE [status |-> "FileNotFoundError", disk |-> d]

\* (mutant) the file is always opened in "w" mode
ModeAlwaysW(exists) == "w"

\* mode = "a" if Path(file).exists() else "w"
ModeFor(exists) == IF exists THEN "a" ELSE "w"

\* (mutant) the difference taken the wrong way round
MissingKeysSwapped(keys, available) == available \ keys

\* set(keys) - set(f.keys())
MissingKeys(keys, available) == keys \ available

\* keys = args if args else f.keys()
RequestedKeys(args, available) == IF args # {} THEN args ELSE available

\* f[key]
Entry(d, k) == IF k \in Keys THEN d.root[k] ELSE Absent

\* f[key][:] : a dataset is read whole; a group cannot be sliced
Load(entry) ==
    IF entry.kind = "dataset" THEN [status |-> "ok", value |-> entry.data]
    ELSE IF entry.kind = "group" THEN [status |-> "TypeError", value |-> NoData]
    ELSE [status |-> "KeyError", value |-> NoData]

\* col in h5
Contains(m, col) == m[col].kind # "absent"

\* del h5[col]
DelItem(m, col) == [m EXCEPT ![col] = Absent]

\* h5.create_dataset(col, data=data, compression=compression)
CreateDataset(m, col, data, compression) ==
    IF data.dtype = "object" THEN [status |-> "TypeError", members |-> m]
    ELSE IF Contains(m, col) THEN [status |-> "ValueError", members |-> m]
    ELSE [status |-> "ok", members |-> [m EXCEPT ![col] = Dataset(data, compression)]]

\* h5.require_group(method)
RequireGroup(m, name) ==
    IF m[name].kind = "absent" THEN [status |-> "ok", members |-> [m EXCEPT ![name] = Group(EmptyMembers)]]
    ELSE IF m[name].kind = "group" THEN [status |-> "ok", members |-> m]
    ELSE [status |-> "TypeError", members |-> m]

\* the shape of the record that reports the last container operation
OutBase ==
    [op |-> "none", status |-> "ok", path |-> H5Path, mode |-> "", target |-> "", col |-> "",
     args |-> {}, requested |-> {}, missing |-> {}, loaded |-> {}, mapping |-> {},
     closed |-> TRUE]

\* bound on the number of File handles the module opens and leaves open
MaxHandles == 2

\* open_hdf5(file_path, *args): the container is open only inside the with
\* block, which closes it on return and on raise
open_hdf5(args) ==
    LET o         == OpenFile(disk, "r")
        available == TopKeys(disk)
        keys      == RequestedKeys(args, available)
        missing   == MissingKeys(keys, available)
        bad       == { k \in keys : Load(Entry(disk, k)).status # "ok" }
        base      == [OutBase EXCEPT !.op = "open_hdf5", !.mode = "r", !.args = args]
    IN  /\ UNCHANGED <<disk, handles, grefs, lastWrite>>
        /\ UNCHANGED fsVars
        /\ IF o.status # "ok"
           THEN out' = [base EXCEPT !.status = o.status]
           ELSE IF missing # {}
           THEN out' = [base EXCEPT !.status = "ValueError", !.requested = keys,
                                    !.missing = missing]
           ELSE IF bad # {}
           THEN \E first \in bad : \E before \in SUBSET (keys \ bad) :
                    out' = [base EXCEPT !.status = Load(Entry(disk, first)).status,
                                        !.requested = keys, !.loaded = before]
           ELSE out' = [base EXCEPT !.requested = keys, !.loaded = keys,
                                    !.mapping = { [key |-> k, value |-> Load(Entry(disk, k)).value] : k \in keys }]

\* make_h5(file): the File is returned to the caller, who owns it
make_h5 ==
    LET mode == ModeFor(Exists(disk))
        o    == OpenFile(disk, mode)
    IN  /\ Len(handles) < MaxHandles
        /\ disk' = o.disk
        /\ handles' = Append(handles, [mode |-> mode, owner |-> "caller"])
        /\ out' = [OutBase EXCEPT !.op = "make_h5", !.mode = mode, !.closed = FALSE]
        /\ UNCHANGED <<grefs, lastWrite>>
        /\ UNCHANGED fsVars

\* get_h5_object(file, method): the File opened by make_h5 stays in a local
\* variable; only the group is returned
get_h5_object(method) ==
    LET mode == ModeFor(Exists(disk))
        o    == OpenFile(disk, mode)
        g    == RequireGroup(o.disk.root, method)
    IN  /\ Len(handles) < MaxHandles
        /\ disk' = Container(g.members)
        /\ handles' = Append(handles, [mode |-> mode, owner |-> "nobody"])
        /\ grefs' = IF g.status = "ok" THEN grefs \cup {method} ELSE grefs
        /\ out' = [OutBase EXCEPT !.op = "get_h5_object", !.status = g.status, !.mode = mode,
                                  !.target = "/", !.col = method, !.closed = FALSE]
        /\ UNCHANGED lastWrite
        /\ UNCHANGED fsVars

\* the handles the caller can pass to save_h5: "/" once make_h5 has returned a
\* File, and every group returned by get_h5_object that is still linked
Targets == { "/" : i \in { j \in DOMAIN handles : handles[j].owner = "caller" } } \cup grefs

\* save_h5(h5, col, data, compression)
save_h5(target, col, data, compression) ==
    LET m0 == Members(disk, target)
        m1 == IF Contains(m0, col) THEN DelItem(m0, col) ELSE m0
        c  == CreateDataset(m1, col, data, compression)
    IN  /\ target \in Targets
        /\ disk' = WithMembers(disk, target, c.members)
        /\ grefs' = IF target = "/" /\ m0[col].kind = "group" THEN grefs \ {col} ELSE grefs
        /\ lastWrite' = IF target = "/" /\ c.status = "ok"
                        THEN [lastWrite EXCEPT ![col] = data]
                        ELSE lastWrite
        /\ out' = [OutBase EXCEPT !.op = "save_h5", !.status = c.status, !.target = target,
                                  !.col = col, !.closed = FALSE]
        /\ UNCHANGED handles
        /\ UNCHANGED fsVars

(***************************************************************************)
(* Specifications                                                          *)
(***************************************************************************)

EmptyFs == [p \in Paths |-> IF p = Root THEN "dir" ELSE "none"]

FsOutInit ==
    [op |-> "none", dir |-> Root, pattern |-> <<>>, status |-> "ok", files |-> <<>>,
     before |-> EmptyFs]

H5Init ==
    /\ disk = NoFile
    /\ handles = <<>>
    /\ grefs = {}
    /\ lastWrite = [k \in Keys |-> NoData]
    /\ out = OutBase

\* the container operations, on a path where no container exists yet
Init ==
    /\ fs = EmptyFs
    /\ fsOut = FsOutInit
    /\ H5Init

Next ==
    \/ \E args \in SUBSET ReadKeys : open_hdf5(args)
    \/ make_h5
    \/ \E method \in Keys : get_h5_object(method)
    \/ \E target \in {"/"} \cup Keys, col \in Keys, data \in WriteData, compression \in Compressions :
           save_h5(target, col, data, compression)

Spec == Init /\ [][Next]_vars

\* the filesystem operations, on any content of the working directory
InitFS ==
    /\ fs \in FsContents
    /\ fsOut = FsOutInit
    /\ H5Init

NextFS ==
    \/ \E d \in Paths : make_dir(d)
    \/ \E pattern \in Patterns, directory \in Paths : fetch_files(pattern, directory)

SpecFS == InitFS /\ [][NextFS]_vars

(***************************************************************************)
(* Properties                                                              *)
(***************************************************************************)

\* the key set a read with arguments args asks the container d for
Asked(args, d) == IF args = {} THEN TopKeys(d) ELSE args

\* C1: when a read asks for at least one key that is not a top-level key of
\* the container, it fails with the missing-keys error, which carries exactly
\* the requested keys that are not available and the file path; no dataset is
\* read and no mapping is returned.
C1_MissingKeysRejected ==
    (/\ out.op = "open_hdf5"
     /\ Exists(disk)
     /\ Asked(out.args, disk) \ TopKeys(disk) # {})
    => /\ out.status = "ValueError"
       /\ out.missing = Asked(out.args, disk) \ TopKeys(disk)
       /\ out.path = H5Path
       /\ out.loaded = {}
       /\ out.mapping = {}
       /\ out.closed

\* C1 witness: a read asked for a stored key and a key that is not stored
C1_Witness ==
    /\ out.op = "open_hdf5"
    /\ out.status = "ValueError"
    /\ out.args = {"x", "z"}
    /\ TopKeys(disk) = {"x", "g"}
    /\ out.missing = {"z"}

\* C2: after any sequence of writes to a container, reading a name returns
\* exactly the data of the most recent write to that name.
C2_ReadReturnsLastWrite ==
    \A k \in Keys :
        (out.op = "open_hdf5" /\ out.args = {k} /\ lastWrite[k] # NoData)
        => /\ out.status = "ok"
           /\ out.mapping = { [key |-> k, value |-> lastWrite[k]] }

\* C3: make_h5 never truncates: on a missing path it creates an empty
\* container, on an existing one it leaves every group and dataset as it was;
\* the make_h5 call inside get_h5_object keeps every existing entry too.
C3_NeverTruncates ==
    [][/\ out'.op = "make_h5" =>
            IF Exists(disk) THEN disk' = disk /\ out'.mode = "a"
                            ELSE disk' = Container(EmptyMembers)
       /\ (out'.op = "get_h5_object" /\ Exists(disk)) =>
            \A k \in TopKeys(disk) : disk'.root[k] = disk.root[k]]_vars

\* C3 witness: a second make_h5 on the path, after a dataset was written
C3_Witness ==
    /\ out.op = "make_h5"
    /\ out.mode = "a"
    /\ Len(handles) = 2
    /\ \E k \in Keys : disk.root[k].kind = "dataset"

\* C4: a write that fails on a name that holds a dataset leaves that dataset
\* in place with its prior value.
C4_FailedWriteKeepsDataset ==
    [][(/\ out'.op = "save_h5"
        /\ out'.status # "ok"
        /\ Members(disk, out'.target)[out'.col].kind = "dataset")
       => Members(disk', out'.target)[out'.col] = Members(disk, out'.target)[out'.col]]_vars

\* C5: every File the module opens itself is closed when the operation ends,
\* or is in the caller's hands: a read closes its container, and no File is
\* left open that was not returned to the caller.
C5_HandlesReleased ==
    /\ out.op = "open_hdf5" => out.closed
    /\ \A i \in DOMAIN handles : handles[i].owner = "caller"

\* C7: a read without explicit keys asks for all top-level keys and succeeds
\* with a mapping from exactly these keys to the arrays stored under them.
C7_ReadAllSucceeds ==
    (out.op = "open_hdf5" /\ Exists(disk) /\ out.args = {})
    => /\ out.requested = TopKeys(disk)
       /\ out.status = "ok"
       /\ { e.key : e \in out.mapping } = TopKeys(disk)
       /\ \A e \in out.mapping : disk.root[e.key] = Dataset(e.value, disk.root[e.key].compression)

\* every place of the container where a dataset or group can be
Locs == { <<k>> : k \in Keys } \cup { <<g, k>> : g \in Keys, k \in Keys }

\* existence and value of the entry at a place (a group counts as a group,
\* whatever it holds)
ValueAt(d, loc) ==
    LET top == d.root[loc[1]]
    IN  IF Len(loc) = 1
        THEN (IF top.kind = "group" THEN [kind |-> "group"] ELSE top)
        ELSE IF top.kind = "group" THEN top.members[loc[2]] ELSE Absent

\* C10: a write changes only the entry of that name directly under the
\* handle; every other dataset and group of the container exists afterwards
\* exactly when it existed before, with the same value.
C10_WriteFrame ==
    [][out'.op = "save_h5" =>
         LET written == IF out'.target = "/" THEN <<out'.col>> ELSE <<out'.target, out'.col>>
         IN  \A loc \in Locs \ {written} : ValueAt(disk', loc) = ValueAt(disk, loc)]_vars

\* the relative path rel matches the pattern
RECURSIVE RelMatch(_, _)
RelMatch(rel, pat) ==
    IF pat = <<>> THEN rel = <<>>
    ELSE IF Head(pat) = StarStar
    THEN \/ RelMatch(rel, Tail(pat))
         \/ rel # <<>> /\ RelMatch(Tail(rel), pat)
    ELSE /\ rel # <<>>
         /\ FnMatch(Head(rel), Head(pat))
         /\ RelMatch(Tail(rel), Tail(pat))

\* the regular files under directory whose relative path matches the pattern
MatchingFiles(f, directory, pat) ==
    { p \in Paths : /\ f[p] = "file"
                    /\ IsPrefix(directory, p)
                    /\ RelMatch(SubSeq(p, Len(directory) + 1, Len(p)), pat) }

\* a path written as a string: its components joined by '/'
RECURSIVE PathString(_)
PathString(p) ==
    IF p = <<>> THEN <<>>
    ELSE IF Len(p) = 1 THEN Head(p)
    ELSE Head(p) \o <<Chr.slash>> \o PathString(Tail(p))

\* C6: fetch_files fails with a not-found error when the directory does not
\* exist, and returns an empty sequence only for an existing directory.
C6_MissingDirectoryFails ==
    fsOut.op = "fetch_files" =>
        /\ fs[fsOut.dir] = "none" => fsOut.status = "NotFoundError"
        /\ (fsOut.status = "ok" /\ fsOut.files = <<>>) => fs[fsOut.dir] = "dir"

\* C8: fetch_files returns exactly the files that match the pattern, each
\* once, in ascending lexicographic order of their paths.
C8_ExactlyMatchingFilesSorted ==
    fsOut.op = "fetch_files" =>
        LET files == fsOut.files
        IN  /\ { files[i] : i \in DOMAIN files } = MatchingFiles(fs, fsOut.dir, fsOut.pattern)
            /\ \A i, j \in DOMAIN files : i # j => files[i] # files[j]
            /\ \A i, j \in DOMAIN files :
                   i < j => SeqLess(PathString(files[i]), PathString(files[j]))

\* the directories on the way to d, d included
Chain(d) == { q \in Paths : q # Root /\ IsPrefix(q, d) }

\* C9 as stated: for every d that does not exist, make_dir(d) leaves d and its
\* parents as directories, and a second make_dir(d) raises nothing and changes
\* nothing.
C9_EnsureAnyMissingPath ==
    (fsOut.op = "make_dir" /\ fsOut.before[fsOut.dir] = "none")
    => /\ fsOut.status = "ok"
       /\ \A q \in Chain(fsOut.dir) : fs[q] = "dir"
       /\ Mkdir(fs, fsOut.dir, MkdirFlags) = [fs |-> fs, status |-> "ok"]

\* C9 (amended): for every d that does not exist and does not lie below a
\* regular file, make_dir(d) leaves d and its parents as directories, and a
\* second make_dir(d) raises nothing and changes nothing; make_dir on an
\* existing directory raises nothing and changes nothing.
C9_EnsureIdempotent ==
    /\ (/\ fsOut.op = "make_dir"
        /\ fsOut.before[fsOut.dir] = "none"
        /\ \A q \in Chain(fsOut.dir) : fsOut.before[q] # "file")
       => /\ fsOut.status = "ok"
          /\ \A q \in Chain(fsOut.dir) : fs[q] = "dir"
          /\ Mkdir(fs, fsOut.dir, MkdirFlags) = [fs |-> fs, status |-> "ok"]
    /\ (fsOut.op = "make_dir" /\ fsOut.before[fsOut.dir] = "dir")
       => fsOut.status = "ok" /\ fs = fsOut.before

\* C9 witness: make_dir created a directory together with its missing parent
C9_Witness ==
    /\ fsOut.op = "make_dir"
    /\ Len(fsOut.dir) = 2
    /\ fsOut.before[Parent(fsOut.dir)] = "none"
    /\ fsOut.before[fsOut.dir] = "none"
    /\ fs[fsOut.dir] = "dir"
    /\ fs[Parent(fsOut.dir)] = "dir"

====
